---- MODULE Spec2Model ----
(***************************************************************************)
(* ghrunner: the supervisor of `ghrunner start` (StartCommand.Run and      *)
(* StartCommand.runRunnerLoop) together with the directory locator         *)
(* searchRunnerDirs.                                                       *)
(*                                                                         *)
(* One goroutine per discovered runner directory drives ./run.sh --once in *)
(* a loop; the main goroutine waits for a first SIGINT/SIGTERM, cancels    *)
(* the shared context and waits on the WaitGroup, while a helper goroutine *)
(* turns a second signal into os.Exit(1).                                  *)
(*                                                                         *)
(* Granularity.  Every blocking point and every point where another        *)
(* goroutine, the operating system or the clock can interleave is a        *)
(* separate action.  A worker process counts as alive from a successful    *)
(* cmd.Start() until cmd.Wait() has returned in the waiter goroutine       *)
(* (the process has been reaped and its status sent to `done`).            *)
(***************************************************************************)
EXTENDS Integers, Sequences, FiniteSets, TLC

(***************************************************************************)
(* Bounds and program constants                                            *)
(***************************************************************************)

\* 30 * time.Second: the grace period between SIGINT and SIGKILL.
GracePeriod ==
  30

\* make(chan os.Signal, 1): capacity of the notification channel.
SigChCap ==
  1

\* How many SIGINT/SIGTERM the environment sends during one run.
MaxInterrupts ==
  2

\* The clock is observed every Quantum time units.
Quantum ==
  10

Min(a, b) ==
  IF a < b THEN a ELSE b

(***************************************************************************)
(* The directory tree scanned by the locator.  The shape is fixed          *)
(*     .  ,  ./a  ,  ./a/x  ,  ./b                                         *)
(* and an initial state chooses which directories hold run.sh, which       *)
(* cannot be listed, and whether the root exists at all.                   *)
(***************************************************************************)
Root ==
  "."

Nodes ==
  {".", "a", "a/x", "b"}

\* Sub-directories in the lexical order in which WalkDir visits them.
Children(n) ==
  CASE n = "."   -> <<"a", "b">>
    [] n = "a"   -> <<"a/x">>
    [] OTHER     -> <<>>

\* The directories strictly below n.
Descendants(n) ==
  CASE n = "."   -> {"a", "a/x", "b"}
    [] n = "a"   -> {"a/x"}
    [] OTHER     -> {}

Trees ==
  { [exists |-> FALSE, marker |-> {},           unreadable |-> {}],
    [exists |-> TRUE,  marker |-> {},           unreadable |-> {}],
    [exists |-> TRUE,  marker |-> {"."},        unreadable |-> {}],
    [exists |-> TRUE,  marker |-> {"a", "a/x"}, unreadable |-> {}],
    [exists |-> TRUE,  marker |-> {"a", "b"},   unreadable |-> {}],
    [exists |-> TRUE,  marker |-> {"a/x", "b"}, unreadable |-> {}],
    [exists |-> TRUE,  marker |-> {"a", "b"},   unreadable |-> {"b"}],
    [exists |-> TRUE,  marker |-> {"a/x"},      unreadable |-> {"b"}] }

(***************************************************************************)
(* searchRunnerDirs: filepath.WalkDir with the callback of main.go.        *)
(* `stack` holds the directories still to visit, next one first.  The      *)
(* callback is first called with a nil error: a directory holding run.sh   *)
(* is appended and skipped (SkipDir).  Otherwise WalkDir lists it; when    *)
(* that fails the callback is called again with the error and returns it,  *)
(* which aborts the walk.  Plain files are visited too but the callback    *)
(* returns nil for them, so they are left out.                             *)
(***************************************************************************)
\* Mutant: the callback returns nil instead of SkipDir, so the walk goes on
\* below a directory it has matched.
RECURSIVE walkDirDescend(_, _, _)
walkDirDescend(t, stack, result) ==
  IF stack = <<>>
    THEN [dirs |-> result, err |-> FALSE]
    ELSE LET path == Head(stack)
             rest == Tail(stack)
         IN  IF path \in t.marker /\ path \notin t.unreadable
               THEN walkDirDescend(t, Children(path) \o rest, Append(result, path))
               ELSE IF path \in t.marker
                 THEN walkDirDescend(t, rest, Append(result, path))
                 ELSE IF path \in t.unreadable
                   THEN [dirs |-> result, err |-> TRUE]
                   ELSE walkDirDescend(t, Children(path) \o rest, result)

\* Mutant: the callback returns SkipAll instead of SkipDir, which ends the
\* whole walk at the first match.
RECURSIVE walkDirSkipAll(_, _, _)
walkDirSkipAll(t, stack, result) ==
  IF stack = <<>>
    THEN [dirs |-> result, err |-> FALSE]
    ELSE LET path == Head(stack)
             rest == Tail(stack)
         IN  IF path \in t.marker
               THEN [dirs |-> Append(result, path), err |-> FALSE]
               ELSE IF path \in t.unreadable
                 THEN [dirs |-> result, err |-> TRUE]
                 ELSE walkDirSkipAll(t, Children(path) \o rest, result)

RECURSIVE walkDir(_, _, _)
walkDir(t, stack, result) ==
  IF stack = <<>>
    THEN [dirs |-> result, err |-> FALSE]
    ELSE LET path == Head(stack)
             rest == Tail(stack)
         IN  IF path \in t.marker
               THEN walkDir(t, rest, Append(result, path))
               ELSE IF path \in t.unreadable
                 THEN [dirs |-> result, err |-> TRUE]
                 ELSE walkDir(t, Children(path) \o rest, result)

searchRunnerDirs(t) ==
  IF ~t.exists
    THEN [dirs |-> <<>>, err |-> TRUE]
    ELSE walkDir(t, <<Root>>, <<>>)

(***************************************************************************)
(* State                                                                   *)
(***************************************************************************)
VARIABLES
  fs,            \* the directory tree (never written by the supervisor)
  work,          \* work[d]: directory d has a _work sub-directory
  mainPc,        \* position of StartCommand.Run
  ret,           \* what Run returned: "none" (not yet), "nil", "error"
  found,         \* <<n>> once "Found n runners" was printed
  runnerDirs,    \* the slice returned by searchRunnerDirs
  launched,      \* directories handed to `go func(dir)`, in order
  registered,    \* signal.Notify(sigCh, ...) was called
  cancelled,     \* ctx.Done() is closed
  sigCh,         \* number of signals buffered in sigCh
  arrived,       \* SIGINT/SIGTERM received by the supervisor so far
  forcePc,       \* the force-quit goroutine: "none", "waiting"
  wg,            \* the WaitGroup counter
  pc,            \* pc[i]: position of loop i
  alive,         \* alive[i]: processes started by loop i and not yet reaped
  done,          \* done[i]: content of the iteration's done channel
  sigs,          \* sigs[i]: signals sent to the group of loop i's process
  timer,         \* timer[i]: time waited in the inner select
  last,          \* last[i]: last line printed by loop i
  exitedInGrace, \* the process exited while the grace timer was running
  lateStarts     \* cmd.Start() calls of loop i made after the cancel (0, 1, many)

vars ==
  <<fs, work, mainPc, ret, found, runnerDirs, launched, registered, cancelled,
    sigCh, arrived, forcePc, wg, pc, alive, done, sigs, timer, last,
    exitedInGrace, lateStarts>>

mainVars ==
  <<mainPc, ret, found, runnerDirs, launched, registered, cancelled,
    sigCh, arrived, forcePc>>

loopVars ==
  <<pc, alive, done, sigs, timer, last, exitedInGrace, lateStarts>>

\* One slot per goroutine the fan-out could ever start.
LoopIds ==
  1 .. Cardinality(Nodes)

\* The goroutines started so far.
Loops ==
  1 .. Len(launched)

dirOf(i) ==
  launched[i]

\* The supervisor process exists and has not ended.
Running ==
  mainPc \notin {"returned", "exited"}

Init ==
  /\ fs \in Trees
  /\ work \in [Nodes -> BOOLEAN]
  /\ \A d \in Nodes : work[d] => fs.exists /\ d \in fs.marker
  /\ mainPc = "search"
  /\ ret = "none"
  /\ found = <<>>
  /\ runnerDirs = <<>>
  /\ launched = <<>>
  /\ registered = FALSE
  /\ cancelled = FALSE
  /\ sigCh = 0
  /\ arrived = 0
  /\ forcePc = "none"
  /\ wg = 0
  /\ pc = [i \in LoopIds |-> "idle"]
  /\ alive = [i \in LoopIds |-> 0]
  /\ done = [i \in LoopIds |-> "empty"]
  /\ sigs = [i \in LoopIds |-> <<>>]
  /\ timer = [i \in LoopIds |-> 0]
  /\ last = [i \in LoopIds |-> "none"]
  /\ exitedInGrace = [i \in LoopIds |-> FALSE]
  /\ lateStarts = [i \in LoopIds |-> 0]

(***************************************************************************)
(* StartCommand.Run                                                        *)
(***************************************************************************)

\* Mutant: an empty discovery result is returned as an error.
RunSearchEmptyIsError ==
  /\ mainPc = "search"
  /\ LET r == searchRunnerDirs(fs)
     IN  IF r.err
           THEN /\ mainPc' = "returned"
                /\ ret' = "error"
                /\ UNCHANGED <<found, runnerDirs, registered>>
           ELSE /\ found' = <<Len(r.dirs)>>
                /\ runnerDirs' = r.dirs
                /\ IF Len(r.dirs) = 0
                     THEN /\ mainPc' = "returned"
                          /\ ret' = "error"
                          /\ UNCHANGED registered
                     ELSE /\ mainPc' = "spawn"
                          /\ registered' = TRUE
                          /\ UNCHANGED ret
  /\ UNCHANGED <<fs, work, launched, cancelled, sigCh, arrived, forcePc, wg>>
  /\ UNCHANGED loopVars

\* Mutant: the error of searchRunnerDirs is ignored and the directories
\* found before it are used.
RunSearchIgnoreError ==
  /\ mainPc = "search"
  /\ LET r == searchRunnerDirs(fs)
     IN  /\ found' = <<Len(r.dirs)>>
         /\ runnerDirs' = r.dirs
         /\ IF Len(r.dirs) = 0
              THEN /\ mainPc' = "returned"
                   /\ ret' = "nil"
                   /\ UNCHANGED registered
              ELSE /\ mainPc' = "spawn"
                   /\ registered' = TRUE
                   /\ UNCHANGED ret
  /\ UNCHANGED <<fs, work, launched, cancelled, sigCh, arrived, forcePc, wg>>
  /\ UNCHANGED loopVars

\* Lines 21-40: discovery, the "Found n runners" report, the early returns,
\* context.WithCancel and signal.Notify.
RunSearch ==
  /\ mainPc = "search"
  /\ LET r == searchRunnerDirs(fs)
     IN  IF r.err
           THEN /\ mainPc' = "returned"
                /\ ret' = "error"
                /\ UNCHANGED <<found, runnerDirs, registered>>
           ELSE /\ found' = <<Len(r.dirs)>>
                /\ runnerDirs' = r.dirs
                /\ IF Len(r.dirs) = 0
                     THEN /\ mainPc' = "returned"
                          /\ ret' = "nil"
                          /\ UNCHANGED registered
                     ELSE /\ mainPc' = "spawn"
                          /\ registered' = TRUE
                          /\ UNCHANGED ret
  /\ UNCHANGED <<fs, work, launched, cancelled, sigCh, arrived, forcePc, wg>>
  /\ UNCHANGED loopVars

\* Lines 43-49, one turn of the range loop: wg.Add(1) and go func(dir).
RunSpawn ==
  /\ mainPc = "spawn"
  /\ Len(launched) < Len(runnerDirs)
  /\ LET i == Len(launched) + 1
     IN  /\ launched' = Append(launched, runnerDirs[i])
         /\ wg' = wg + 1
         /\ pc' = [pc EXCEPT ![i] = "check"]
  /\ UNCHANGED <<fs, work, mainPc, ret, found, runnerDirs, registered,
                 cancelled, sigCh, arrived, forcePc>>
  /\ UNCHANGED <<alive, done, sigs, timer, last, exitedInGrace, lateStarts>>

\* The range loop is over: Run blocks in <-sigCh (line 52).
RunSpawned ==
  /\ mainPc = "spawn"
  /\ Len(launched) = Len(runnerDirs)
  /\ mainPc' = "waitsig"
  /\ UNCHANGED <<fs, work, ret, found, runnerDirs, launched, registered,
                 cancelled, sigCh, arrived, forcePc, wg>>
  /\ UNCHANGED loopVars

\* Lines 52-62: the first signal is received, cancel() closes ctx.Done() and
\* the force-quit goroutine is started; Run goes on to wg.Wait().
RunFirstSignal ==
  /\ mainPc = "waitsig"
  /\ sigCh > 0
  /\ sigCh' = sigCh - 1
  /\ cancelled' = TRUE
  /\ forcePc' = "waiting"
  /\ mainPc' = "wgwait"
  /\ UNCHANGED <<fs, work, ret, found, runnerDirs, launched, registered,
                 arrived, wg>>
  /\ UNCHANGED loopVars

\* Mutant: the force-quit goroutine reads sigCh from the start, before the
\* first signal has been received and the context cancelled.
ForceQuitBeforeCancel ==
  /\ Running
  /\ registered
  /\ sigCh > 0
  /\ sigCh' = sigCh - 1
  /\ mainPc' = "exited"
  /\ UNCHANGED <<fs, work, ret, found, runnerDirs, launched, registered,
                 cancelled, arrived, forcePc, wg>>
  /\ UNCHANGED loopVars

\* Mutant: the forced exit first kills the workers and removes every _work.
ForceQuitWithCleanup ==
  /\ Running
  /\ forcePc = "waiting"
  /\ sigCh > 0
  /\ sigCh' = sigCh - 1
  /\ mainPc' = "exited"
  /\ sigs' = [j \in LoopIds |->
                IF j \in Loops /\ alive[j] > 0
                THEN Append(sigs[j], "kill") ELSE sigs[j]]
  /\ work' = [d \in DOMAIN work |-> FALSE]
  /\ UNCHANGED <<fs, ret, found, runnerDirs, launched, registered,
                 cancelled, arrived, forcePc, wg>>
  /\ UNCHANGED <<pc, alive, done, timer, last, exitedInGrace, lateStarts>>

\* Lines 58-62: the goroutine receives a further signal and calls os.Exit(1).
ForceQuit ==
  /\ Running
  /\ forcePc = "waiting"
  /\ sigCh > 0
  /\ sigCh' = sigCh - 1
  /\ mainPc' = "exited"
  /\ UNCHANGED <<fs, work, ret, found, runnerDirs, launched, registered,
                 cancelled, arrived, forcePc, wg>>
  /\ UNCHANGED loopVars

\* Mutant: Run returns without waiting for the WaitGroup.
RunWaitDoneNoWait ==
  /\ mainPc = "wgwait"
  /\ mainPc' = "returned"
  /\ ret' = "nil"
  /\ cancelled' = TRUE
  /\ UNCHANGED <<fs, work, found, runnerDirs, launched, registered,
                 sigCh, arrived, forcePc, wg>>
  /\ UNCHANGED loopVars

\* Mutant: the deferred cancel() toggles the flag instead of closing it once.
RunWaitDoneToggle ==
  /\ mainPc = "wgwait"
  /\ wg = 0
  /\ mainPc' = "returned"
  /\ ret' = "nil"
  /\ cancelled' = ~cancelled
  /\ UNCHANGED <<fs, work, found, runnerDirs, launched, registered,
                 sigCh, arrived, forcePc, wg>>
  /\ UNCHANGED loopVars

\* Lines 64-66: wg.Wait() returns, "All runners stopped", return nil (the
\* deferred cancel() finds the context cancelled already).
RunWaitDone ==
  /\ mainPc = "wgwait"
  /\ wg = 0
  /\ mainPc' = "returned"
  /\ ret' = "nil"
  /\ cancelled' = TRUE
  /\ UNCHANGED <<fs, work, found, runnerDirs, launched, registered,
                 sigCh, arrived, forcePc, wg>>
  /\ UNCHANGED loopVars

\* The operating system delivers SIGINT or SIGTERM to the supervisor.  With
\* signal.Notify in place the runtime does a non-blocking send on sigCh: a
\* signal that finds the buffer full is dropped.  (A signal before Notify
\* ends the process by the default disposition and is left out.)
Interrupt ==
  /\ Running
  /\ registered
  /\ arrived < MaxInterrupts
  /\ arrived' = arrived + 1
  /\ sigCh' = IF sigCh < SigChCap THEN sigCh + 1 ELSE sigCh
  /\ UNCHANGED <<fs, work, mainPc, ret, found, runnerDirs, launched,
                 registered, cancelled, forcePc, wg>>
  /\ UNCHANGED loopVars

(***************************************************************************)
(* StartCommand.runRunnerLoop                                              *)
(***************************************************************************)

\* Mutant: the start-of-iteration check of ctx.Done() is missing.
LoopCheckIgnoreCancel(i) ==
  /\ Running
  /\ pc[i] = "check"
  /\ pc' = [pc EXCEPT ![i] = "clean"]
  /\ UNCHANGED <<fs, work, wg>>
  /\ UNCHANGED mainVars
  /\ UNCHANGED <<alive, done, sigs, timer, last, exitedInGrace, lateStarts>>

\* Lines 71-75: the non-blocking check of ctx.Done() that opens an iteration.
\* When cancelled the loop returns and the deferred wg.Done() runs.
LoopCheck(i) ==
  /\ Running
  /\ pc[i] = "check"
  /\ IF cancelled
       THEN /\ pc' = [pc EXCEPT ![i] = "done"]
            /\ wg' = wg - 1
       ELSE /\ pc' = [pc EXCEPT ![i] = "clean"]
            /\ UNCHANGED wg
  /\ UNCHANGED <<fs, work>>
  /\ UNCHANGED mainVars
  /\ UNCHANGED <<alive, done, sigs, timer, last, exitedInGrace, lateStarts>>

\* Lines 78-79: os.RemoveAll(dir/_work) before the run.
LoopClean(i) ==
  /\ Running
  /\ pc[i] = "clean"
  /\ work' = [work EXCEPT ![dirOf(i)] = FALSE]
  /\ pc' = [pc EXCEPT ![i] = "start"]
  /\ UNCHANGED <<fs, wg>>
  /\ UNCHANGED mainVars
  /\ UNCHANGED <<alive, done, sigs, timer, last, exitedInGrace, lateStarts>>

\* Mutant: launches are serialised, a loop starts its process only when no
\* other loop has one running.
LoopStartSerialised(i) ==
  /\ Running
  /\ pc[i] = "start"
  /\ \A j \in Loops \ {i} : alive[j] = 0
  /\ lateStarts' = [lateStarts EXCEPT ![i] = IF cancelled THEN Min(@ + 1, 2) ELSE @]
  /\ \/ /\ alive' = [alive EXCEPT ![i] = @ + 1]
        /\ done' = [done EXCEPT ![i] = "empty"]
        /\ sigs' = [sigs EXCEPT ![i] = <<>>]
        /\ timer' = [timer EXCEPT ![i] = 0]
        /\ exitedInGrace' = [exitedInGrace EXCEPT ![i] = FALSE]
        /\ last' = [last EXCEPT ![i] = "starting"]
        /\ pc' = [pc EXCEPT ![i] = "select"]
     \/ /\ last' = [last EXCEPT ![i] = "startfail"]
        /\ pc' = [pc EXCEPT ![i] = "check"]
        /\ UNCHANGED <<alive, done, sigs, timer, exitedInGrace>>
  /\ UNCHANGED <<fs, work, wg>>
  /\ UNCHANGED mainVars

\* Mutant: a failed cmd.Start() ends the loop (return instead of continue).
LoopStartFailReturns(i) ==
  /\ Running
  /\ pc[i] = "start"
  /\ lateStarts' = [lateStarts EXCEPT ![i] = IF cancelled THEN Min(@ + 1, 2) ELSE @]
  /\ \/ /\ alive' = [alive EXCEPT ![i] = @ + 1]
        /\ done' = [done EXCEPT ![i] = "empty"]
        /\ sigs' = [sigs EXCEPT ![i] = <<>>]
        /\ timer' = [timer EXCEPT ![i] = 0]
        /\ exitedInGrace' = [exitedInGrace EXCEPT ![i] = FALSE]
        /\ last' = [last EXCEPT ![i] = "starting"]
        /\ pc' = [pc EXCEPT ![i] = "select"]
        /\ UNCHANGED wg
     \/ /\ last' = [last EXCEPT ![i] = "startfail"]
        /\ pc' = [pc EXCEPT ![i] = "done"]
        /\ wg' = wg - 1
        /\ UNCHANGED <<alive, done, sigs, timer, exitedInGrace>>
  /\ UNCHANGED <<fs, work>>
  /\ UNCHANGED mainVars

\* Lines 84-108: the command is built, "Starting runner" is printed and
\* cmd.Start() is called.  On failure the loop reports and continues with the
\* next iteration; on success a fresh done channel is made and a goroutine
\* waits for the process.
LoopStart(i) ==
  /\ Running
  /\ pc[i] = "start"
  /\ lateStarts' = [lateStarts EXCEPT ![i] = IF cancelled THEN Min(@ + 1, 2) ELSE @]
  /\ \/ /\ alive' = [alive EXCEPT ![i] = @ + 1]
        /\ done' = [done EXCEPT ![i] = "empty"]
        /\ sigs' = [sigs EXCEPT ![i] = <<>>]
        /\ timer' = [timer EXCEPT ![i] = 0]
        /\ exitedInGrace' = [exitedInGrace EXCEPT ![i] = FALSE]
        /\ last' = [last EXCEPT ![i] = "starting"]
        /\ pc' = [pc EXCEPT ![i] = "select"]
     \/ /\ last' = [last EXCEPT ![i] = "startfail"]
        /\ pc' = [pc EXCEPT ![i] = "check"]
        /\ UNCHANGED <<alive, done, sigs, timer, exitedInGrace>>
  /\ UNCHANGED <<fs, work, wg>>
  /\ UNCHANGED mainVars

\* Mutant: the loop goes round without having received from `done`.
LoopSelectDoneNoWait(i) ==
  /\ Running
  /\ pc[i] = "select"
  /\ work' = [work EXCEPT ![dirOf(i)] = FALSE]
  /\ last' = [last EXCEPT ![i] = "completed"]
  /\ pc' = [pc EXCEPT ![i] = "check"]
  /\ UNCHANGED <<fs, wg>>
  /\ UNCHANGED mainVars
  /\ UNCHANGED <<alive, done, sigs, timer, exitedInGrace, lateStarts>>

\* Mutant: a run that ends with status 0 ends the loop (run once).
LoopSelectDoneOnce(i) ==
  /\ Running
  /\ pc[i] = "select"
  /\ done[i] # "empty"
  /\ done' = [done EXCEPT ![i] = "empty"]
  /\ work' = [work EXCEPT ![dirOf(i)] = FALSE]
  /\ last' = [last EXCEPT ![i] = IF done[i] = "err" THEN "error-completed"
                                                     ELSE "completed"]
  /\ IF done[i] = "ok"
       THEN /\ pc' = [pc EXCEPT ![i] = "done"]
            /\ wg' = wg - 1
       ELSE /\ pc' = [pc EXCEPT ![i] = "check"]
            /\ UNCHANGED wg
  /\ UNCHANGED fs
  /\ UNCHANGED mainVars
  /\ UNCHANGED <<alive, sigs, timer, exitedInGrace, lateStarts>>

\* Mutant: a non-zero exit status ends the loop instead of restarting.
LoopSelectDoneStopOnError(i) ==
  /\ Running
  /\ pc[i] = "select"
  /\ done[i] # "empty"
  /\ done' = [done EXCEPT ![i] = "empty"]
  /\ work' = [work EXCEPT ![dirOf(i)] = FALSE]
  /\ IF done[i] = "err"
       THEN /\ last' = [last EXCEPT ![i] = "error-completed"]
            /\ pc' = [pc EXCEPT ![i] = "done"]
            /\ wg' = wg - 1
       ELSE /\ last' = [last EXCEPT ![i] = "completed"]
            /\ pc' = [pc EXCEPT ![i] = "check"]
            /\ UNCHANGED wg
  /\ UNCHANGED fs
  /\ UNCHANGED mainVars
  /\ UNCHANGED <<alive, sigs, timer, exitedInGrace, lateStarts>>

\* Mutant: the post-run os.RemoveAll is missing.
LoopSelectDoneNoCleanup(i) ==
  /\ Running
  /\ pc[i] = "select"
  /\ done[i] # "empty"
  /\ done' = [done EXCEPT ![i] = "empty"]
  /\ last' = [last EXCEPT ![i] = IF done[i] = "err" THEN "error-completed"
                                                     ELSE "completed"]
  /\ pc' = [pc EXCEPT ![i] = "check"]
  /\ UNCHANGED <<fs, work, wg>>
  /\ UNCHANGED mainVars
  /\ UNCHANGED <<alive, sigs, timer, exitedInGrace, lateStarts>>

\* Lines 110 and 132-141: the outer select takes `err := <-done`: the
\* process has been waited for, _work is removed, the outcome is printed
\* and the loop goes round.
LoopSelectDone(i) ==
  /\ Running
  /\ pc[i] = "select"
  /\ done[i] # "empty"
  /\ done' = [done EXCEPT ![i] = "empty"]
  /\ work' = [work EXCEPT ![dirOf(i)] = FALSE]
  /\ last' = [last EXCEPT ![i] = IF done[i] = "err" THEN "error-completed"
                                                     ELSE "completed"]
  /\ pc' = [pc EXCEPT ![i] = "check"]
  /\ UNCHANGED <<fs, wg>>
  /\ UNCHANGED mainVars
  /\ UNCHANGED <<alive, sigs, timer, exitedInGrace, lateStarts>>

\* Mutant: the interrupt goes to every running worker, not only to the
\* loop's own process group.
LoopSelectCancelBroadcast(i) ==
  /\ Running
  /\ pc[i] = "select"
  /\ cancelled
  /\ sigs' = [j \in LoopIds |->
                IF j = i \/ (j \in Loops /\ alive[j] > 0 /\ sigs[j] = <<>>)
                THEN Append(sigs[j], "int") ELSE sigs[j]]
  /\ timer' = [timer EXCEPT ![i] = 0]
  /\ last' = [last EXCEPT ![i] = "stopping"]
  /\ pc' = [pc EXCEPT ![i] = "grace"]
  /\ UNCHANGED <<fs, work, wg>>
  /\ UNCHANGED mainVars
  /\ UNCHANGED <<alive, done, exitedInGrace, lateStarts>>

\* Mutant: after SIGINT the loop returns at once, without waiting for the
\* process and without the final cleanup.
LoopSelectCancelNoWait(i) ==
  /\ Running
  /\ pc[i] = "select"
  /\ cancelled
  /\ sigs' = [sigs EXCEPT ![i] = Append(@, "int")]
  /\ last' = [last EXCEPT ![i] = "stopped"]
  /\ pc' = [pc EXCEPT ![i] = "done"]
  /\ wg' = wg - 1
  /\ UNCHANGED <<fs, work>>
  /\ UNCHANGED mainVars
  /\ UNCHANGED <<alive, done, timer, exitedInGrace, lateStarts>>

\* Lines 110-122: the outer select takes <-ctx.Done() (when both cases are
\* ready Go picks either): "Stopping runner", SIGINT to the process group,
\* and the grace timer is started by time.After.
LoopSelectCancel(i) ==
  /\ Running
  /\ pc[i] = "select"
  /\ cancelled
  /\ sigs' = [sigs EXCEPT ![i] = Append(@, "int")]
  /\ timer' = [timer EXCEPT ![i] = 0]
  /\ last' = [last EXCEPT ![i] = "stopping"]
  /\ pc' = [pc EXCEPT ![i] = "grace"]
  /\ UNCHANGED <<fs, work, wg>>
  /\ UNCHANGED mainVars
  /\ UNCHANGED <<alive, done, exitedInGrace, lateStarts>>

\* Time passes for a loop blocked in the inner select (at most Quantum units
\* at once, and never past the instant the timer fires).  The timer is made
\* by time.After when the select is entered, so it cannot be ready then; a
\* select that blocks completes with the first case that becomes ready.
\* Hence the timer stops counting once the exit status is in `done`, and
\* timer[i] = GracePeriod means that the timer fired before any exit.
Tick(i) ==
  /\ Running
  /\ pc[i] = "grace"
  /\ done[i] = "empty"
  /\ timer[i] < GracePeriod
  /\ timer' = [timer EXCEPT ![i] = Min(@ + Quantum, GracePeriod)]
  /\ UNCHANGED <<fs, work, wg>>
  /\ UNCHANGED mainVars
  /\ UNCHANGED <<pc, alive, done, sigs, last, exitedInGrace, lateStarts>>

\* Mutant: after a graceful stop the loop goes on with another iteration.
LoopGraceDoneLoops(i) ==
  /\ Running
  /\ pc[i] = "grace"
  /\ done[i] # "empty"
  /\ timer[i] < GracePeriod
  /\ done' = [done EXCEPT ![i] = "empty"]
  /\ work' = [work EXCEPT ![dirOf(i)] = FALSE]
  /\ last' = [last EXCEPT ![i] = "stopped"]
  /\ pc' = [pc EXCEPT ![i] = "clean"]
  /\ UNCHANGED <<fs, wg>>
  /\ UNCHANGED mainVars
  /\ UNCHANGED <<alive, sigs, timer, exitedInGrace, lateStarts>>

\* Lines 119-121 and 129-131: the inner select takes <-done before the
\* timer fired: _work is removed, "Runner stopped", return (wg.Done()).
LoopGraceDone(i) ==
  /\ Running
  /\ pc[i] = "grace"
  /\ done[i] # "empty"
  /\ timer[i] < GracePeriod
  /\ done' = [done EXCEPT ![i] = "empty"]
  /\ work' = [work EXCEPT ![dirOf(i)] = FALSE]
  /\ last' = [last EXCEPT ![i] = "stopped"]
  /\ pc' = [pc EXCEPT ![i] = "done"]
  /\ wg' = wg - 1
  /\ UNCHANGED fs
  /\ UNCHANGED mainVars
  /\ UNCHANGED <<alive, sigs, timer, exitedInGrace, lateStarts>>

\* Mutant: SIGKILL is sent without waiting for the timer.
LoopGraceTimeoutNoWait(i) ==
  /\ Running
  /\ pc[i] = "grace"
  /\ sigs' = [sigs EXCEPT ![i] = Append(@, "kill")]
  /\ last' = [last EXCEPT ![i] = "killing"]
  /\ pc' = [pc EXCEPT ![i] = "killwait"]
  /\ UNCHANGED <<fs, work, wg>>
  /\ UNCHANGED mainVars
  /\ UNCHANGED <<alive, done, timer, exitedInGrace, lateStarts>>

\* Mutant: after the timeout the loop waits on without sending SIGKILL.
LoopGraceTimeoutNoKill(i) ==
  /\ Running
  /\ pc[i] = "grace"
  /\ timer[i] = GracePeriod
  /\ last' = [last EXCEPT ![i] = "killing"]
  /\ pc' = [pc EXCEPT ![i] = "killwait"]
  /\ UNCHANGED <<fs, work, wg>>
  /\ UNCHANGED mainVars
  /\ UNCHANGED <<alive, done, sigs, timer, exitedInGrace, lateStarts>>

\* Lines 122-125: the timer fired first: "didn't stop in time" and SIGKILL
\* to the process group; the loop then blocks in <-done (line 126).
LoopGraceTimeout(i) ==
  /\ Running
  /\ pc[i] = "grace"
  /\ timer[i] = GracePeriod
  /\ sigs' = [sigs EXCEPT ![i] = Append(@, "kill")]
  /\ last' = [last EXCEPT ![i] = "killing"]
  /\ pc' = [pc EXCEPT ![i] = "killwait"]
  /\ UNCHANGED <<fs, work, wg>>
  /\ UNCHANGED mainVars
  /\ UNCHANGED <<alive, done, timer, exitedInGrace, lateStarts>>

\* Lines 126-131: <-done after the kill, then _work is removed, "Runner
\* stopped", return (wg.Done()).
LoopKillWaitDone(i) ==
  /\ Running
  /\ pc[i] = "killwait"
  /\ done[i] # "empty"
  /\ done' = [done EXCEPT ![i] = "empty"]
  /\ work' = [work EXCEPT ![dirOf(i)] = FALSE]
  /\ last' = [last EXCEPT ![i] = "stopped"]
  /\ pc' = [pc EXCEPT ![i] = "done"]
  /\ wg' = wg - 1
  /\ UNCHANGED fs
  /\ UNCHANGED mainVars
  /\ UNCHANGED <<alive, sigs, timer, exitedInGrace, lateStarts>>

(***************************************************************************)
(* The worker process (bash -lc "cd dir && ./run.sh --once")               *)
(***************************************************************************)

\* The runner creates its _work directory while it executes.  It is a
\* process of its own group (Setpgid), so it goes on doing so when the
\* supervisor is gone.
ProcMkWork(i) ==
  /\ i \in Loops
  /\ alive[i] > 0
  /\ ~work[dirOf(i)]
  /\ work' = [work EXCEPT ![dirOf(i)] = TRUE]
  /\ UNCHANGED <<fs, wg>>
  /\ UNCHANGED mainVars
  /\ UNCHANGED loopVars

\* The process ends by itself, with status 0 or not, at any moment of its
\* life (also after a SIGINT, which it may honour or ignore); cmd.Wait()
\* returns in the waiter goroutine, which sends the status to `done`
\* (lines 105-108).
ProcExit(i) ==
  /\ Running
  /\ i \in Loops
  /\ alive[i] > 0
  /\ \E status \in {"ok", "err"} :
       done' = [done EXCEPT ![i] = status]
  /\ alive' = [alive EXCEPT ![i] = @ - 1]
  /\ exitedInGrace' = [exitedInGrace EXCEPT ![i] =
                         @ \/ (pc[i] = "grace" /\ timer[i] < GracePeriod)]
  /\ UNCHANGED <<fs, work, wg>>
  /\ UNCHANGED mainVars
  /\ UNCHANGED <<pc, sigs, timer, last, lateStarts>>

\* A process whose group received SIGKILL ends; cmd.Wait() reports it.
ProcKilled(i) ==
  /\ Running
  /\ i \in Loops
  /\ alive[i] > 0
  /\ Len(sigs[i]) > 0
  /\ sigs[i][Len(sigs[i])] = "kill"
  /\ done' = [done EXCEPT ![i] = "err"]
  /\ alive' = [alive EXCEPT ![i] = @ - 1]
  /\ UNCHANGED <<fs, work, wg>>
  /\ UNCHANGED mainVars
  /\ UNCHANGED <<pc, sigs, timer, last, exitedInGrace, lateStarts>>

(***************************************************************************)
(* Specifications                                                          *)
(***************************************************************************)
LoopStep(i) ==
  \/ LoopCheck(i)
  \/ LoopClean(i)
  \/ LoopStart(i)
  \/ LoopSelectDone(i)
  \/ LoopSelectCancel(i)
  \/ LoopGraceDone(i)
  \/ LoopGraceTimeout(i)
  \/ LoopKillWaitDone(i)

Next ==
  \/ RunSearch
  \/ RunSpawn
  \/ RunSpawned
  \/ RunFirstSignal
  \/ ForceQuit
  \/ RunWaitDone
  \/ Interrupt
  \/ \E i \in LoopIds : LoopStep(i)
  \/ \E i \in LoopIds : Tick(i)
  \/ \E i \in LoopIds : ProcMkWork(i)
  \/ \E i \in LoopIds : ProcExit(i)
  \/ \E i \in LoopIds : ProcKilled(i)

Spec ==
  Init /\ [][Next]_vars

TypeOK ==
  /\ fs \in Trees
  /\ mainPc \in {"search", "spawn", "waitsig", "wgwait", "returned", "exited"}
  /\ forcePc \in {"none", "waiting"}
  /\ ret \in {"none", "nil", "error"}
  /\ sigCh \in 0 .. SigChCap
  /\ arrived \in 0 .. MaxInterrupts
  /\ wg \in 0 .. Cardinality(Nodes)
  /\ \A i \in LoopIds :
       /\ pc[i] \in {"idle", "check", "clean", "start", "select", "grace",
                     "killwait", "run", "done"}
       /\ timer[i] \in 0 .. GracePeriod
       /\ done[i] \in {"empty", "ok", "err"}

(***************************************************************************)
(* The locator on its own: searchRunnerDirs is called on any tree of the   *)
(* fixed shape and what it returns is kept in runnerDirs and ret (also     *)
(* the directories collected before an error).                             *)
(***************************************************************************)
AllTrees ==
  [exists : BOOLEAN, marker : SUBSET Nodes, unreadable : SUBSET Nodes]

InitLocate ==
  /\ fs \in AllTrees
  /\ work = [d \in Nodes |-> FALSE]
  /\ mainPc = "search"
  /\ ret = "none"
  /\ found = <<>>
  /\ runnerDirs = <<>>
  /\ launched = <<>>
  /\ registered = FALSE
  /\ cancelled = FALSE
  /\ sigCh = 0
  /\ arrived = 0
  /\ forcePc = "none"
  /\ wg = 0
  /\ pc = [i \in LoopIds |-> "idle"]
  /\ alive = [i \in LoopIds |-> 0]
  /\ done = [i \in LoopIds |-> "empty"]
  /\ sigs = [i \in LoopIds |-> <<>>]
  /\ timer = [i \in LoopIds |-> 0]
  /\ last = [i \in LoopIds |-> "none"]
  /\ exitedInGrace = [i \in LoopIds |-> FALSE]
  /\ lateStarts = [i \in LoopIds |-> 0]

Locate ==
  /\ mainPc = "search"
  /\ LET r == searchRunnerDirs(fs)
     IN  /\ runnerDirs' = r.dirs
         /\ ret' = IF r.err THEN "error" ELSE "nil"
  /\ mainPc' = "returned"
  /\ UNCHANGED <<fs, work, found, launched, registered, cancelled, sigCh,
                 arrived, forcePc, wg>>
  /\ UNCHANGED loopVars

NextLocate ==
  Locate

SpecLocate ==
  InitLocate /\ [][NextLocate]_vars

(***************************************************************************)
(* Fairness: the Go scheduler runs every runnable goroutine, time passes,  *)
(* pending signals are received, and a process whose group got SIGKILL     *)
(* ends.  Nothing forces a worker to end by itself or the operator to send *)
(* a signal.                                                               *)
(***************************************************************************)
Fairness ==
  /\ WF_vars(RunSearch)
  /\ WF_vars(RunSpawn)
  /\ WF_vars(RunSpawned)
  /\ WF_vars(RunFirstSignal)
  /\ WF_vars(ForceQuit)
  /\ WF_vars(RunWaitDone)
  /\ \A i \in LoopIds : WF_vars(LoopStep(i))
  /\ \A i \in LoopIds : WF_vars(Tick(i))
  /\ \A i \in LoopIds : WF_vars(ProcKilled(i))

SpecFair ==
  Init /\ [][Next]_vars /\ Fairness

(***************************************************************************)
(* Helpers of the properties                                               *)
(***************************************************************************)
\* The loops driving directory d.
LoopsOf(d) ==
  {i \in Loops : dirOf(i) = d}

\* SIGKILL was sent to the group of loop i's current process.
Killed(i) ==
  \E k \in 1 .. Len(sigs[i]) : sigs[i][k] = "kill"

\* Loop i is between a successful cmd.Start() and its handling of the exit.
Executing(i) ==
  pc[i] \in {"select", "grace", "killwait"}

\* Loop i has just called cmd.Start(): either a new process runs and its
\* fresh done channel is empty, or the launch failed and the loop is back at
\* its check.
NewAttempt(i) ==
  \/ pc[i] = "select" /\ last[i] = "starting" /\ done[i] = "empty"
  \/ pc[i] = "check" /\ last[i] = "startfail"

(***************************************************************************)
(* C1.  In every reachable state every runner directory has at most one    *)
(* live (started, not yet waited-for) worker process: a loop is about to   *)
(* call cmd.Start() only when its previous process has been waited for,    *)
(* and no two loops drive the same directory.                              *)
(***************************************************************************)
C1_OneProcessPerDirectory ==
  /\ \A d \in Nodes :
       /\ \A i \in LoopsOf(d) : alive[i] <= 1
       /\ Cardinality({i \in LoopsOf(d) : alive[i] > 0}) <= 1
  /\ \A i \in Loops : pc[i] \in {"check", "clean", "start"} => alive[i] = 0
  /\ \A i, j \in Loops : i # j => dirOf(i) # dirOf(j)

\* One directory has a live process while the loop of another directory,
\* whose previous process has been waited for, is about to start the next.
C1_Witness ==
  \E i, j \in Loops :
    /\ i # j
    /\ alive[j] = 1 /\ pc[j] = "select"
    /\ pc[i] = "start" /\ last[i] \in {"completed", "error-completed"}
    /\ alive[i] = 0

C3_InterruptThenKillAfterGrace ==
  \A i \in LoopIds :
    /\ pc[i] \in {"grace", "killwait"} => Len(sigs[i]) >= 1 /\ sigs[i][1] = "int"
    /\ Killed(i) => /\ sigs[i] = <<"int", "kill">>
                    /\ timer[i] = GracePeriod
                    /\ ~exitedInGrace[i]
    /\ exitedInGrace[i] => ~Killed(i) /\ timer[i] < GracePeriod
    /\ pc[i] = "killwait" => Killed(i)

\* One loop has killed its process after the full grace period while
\* another one saw its process exit inside the window.
C3_Witness ==
  \E i, j \in Loops :
    /\ pc[i] = "done" /\ sigs[i] = <<"int", "kill">> /\ timer[i] = GracePeriod
    /\ pc[j] = "done" /\ sigs[j] = <<"int">> /\ exitedInGrace[j]
    /\ timer[j] > 0

(***************************************************************************)
(* C4.  As claimed: under SpecFair, once the context is cancelled every    *)
(* loop eventually returns and Run returns after them.                     *)
(***************************************************************************)
C4_CancelLeadsToReturn ==
  cancelled ~> /\ mainPc = "returned"
               /\ \A i \in Loops : pc[i] = "done"

(***************************************************************************)
(* C4, amended.  Under SpecFair, once the context is cancelled the run     *)
(* comes to an end: every loop returns with its last process waited for    *)
(* and Run returns nil after them, whether the worker honours SIGINT,      *)
(* ignores it until SIGKILL, or fails to start -- unless a second signal   *)
(* ends the supervisor by os.Exit(1) before that.                          *)
(***************************************************************************)
C4_CancelLeadsToReturnOrForcedExit ==
  cancelled ~> \/ /\ mainPc = "returned"
                  /\ ret = "nil"
                  /\ \A i \in Loops : pc[i] = "done" /\ alive[i] = 0
               \/ mainPc = "exited"

\* Run has returned after a drain in which one process had to be killed
\* and the launch of another loop had failed.
C4_Witness ==
  /\ mainPc = "returned" /\ cancelled
  /\ \E i, j \in Loops :
       /\ pc[i] = "done" /\ Killed(i)
       /\ pc[j] = "done" /\ last[j] = "startfail"

(***************************************************************************)
(* C5.  The _work directory of a loop's directory is absent when the loop  *)
(* is about to call cmd.Start() and after the loop has handled the end of  *)
(* a process (natural exit, exit on SIGINT, SIGKILL): once the loop has    *)
(* made its first attempt, _work exists only between a successful          *)
(* cmd.Start() and the loop's handling of that process's exit.             *)
(***************************************************************************)
C5_ScratchOnlyDuringExecution ==
  \A i \in Loops :
    /\ pc[i] = "start" => ~work[dirOf(i)]
    /\ (work[dirOf(i)] /\ last[i] # "none") => Executing(i)
    /\ (work[dirOf(i)] /\ last[i] = "none") => pc[i] \in {"check", "clean", "done"}

\* A loop has handled a forced kill and another one a natural exit, and the
\* second is about to launch again.
C5_Witness ==
  \E i, j \in Loops :
    /\ pc[i] = "done" /\ Killed(i) /\ ~work[dirOf(i)]
    /\ pc[j] = "start" /\ last[j] = "completed" /\ ~work[dirOf(j)]

(***************************************************************************)
(* C6.  As claimed: a second signal that arrives while the supervisor is   *)
(* still running ends the process whenever it arrives.  Stated as a        *)
(* safety property: as long as the supervisor runs after two signals have  *)
(* arrived, one of them is waiting in sigCh for the force-quit goroutine.  *)
(***************************************************************************)
C6_SecondInterruptForcesExit ==
  (Running /\ arrived >= 2) => sigCh >= 1

(***************************************************************************)
(* C7.  Run starts exactly one loop per discovered directory, in order,    *)
(* and returns nil after a drain only when every one of them has returned; *)
(* with no directory found it prints "Found 0 runners" and returns without *)
(* starting a loop, without signal.Notify and without receiving a signal.  *)
(***************************************************************************)
C7_OneLoopPerDirectory ==
  /\ Len(launched) <= Len(runnerDirs)
  /\ \A i \in Loops : launched[i] = runnerDirs[i]
  /\ {i \in LoopIds : pc[i] # "idle"} = Loops
  /\ found # <<>> => found[1] = Len(searchRunnerDirs(fs).dirs)
  /\ (found # <<>> /\ mainPc # "spawn") =>
        /\ Len(launched) = found[1]
        /\ Len(launched) = Cardinality({launched[i] : i \in Loops})
  /\ (mainPc = "returned" /\ found # <<>>) =>
        /\ ret = "nil"
        /\ \A i \in 1 .. found[1] : pc[i] = "done"
  /\ found = <<0>> =>
        /\ mainPc = "returned" /\ ret = "nil"
        /\ launched = <<>> /\ wg = 0
        /\ ~registered /\ arrived = 0 /\ ~cancelled

\* Run has returned after two loops were started and both have returned.
C7_Witness ==
  /\ mainPc = "returned" /\ ret = "nil"
  /\ found = <<2>> /\ Len(launched) = 2
  /\ pc[1] = "done" /\ pc[2] = "done"

C9_DiscoveryFailureLaunchesNothing ==
  /\ [][searchRunnerDirs(fs).err =>
          /\ mainPc' = "returned" /\ ret' = "error"
          /\ work' = work
          /\ launched' = <<>> /\ runnerDirs' = <<>> /\ found' = <<>>
          /\ ~registered' /\ ~cancelled' /\ wg' = 0
          /\ \A i \in LoopIds : pc'[i] = "idle" /\ alive'[i] = 0]_vars

\* The walk found ./a/x, failed on ./b, and Run has returned the error
\* leaving the stale _work of ./a/x in place.
C9_Witness ==
  /\ mainPc = "returned" /\ ret = "error"
  /\ fs.exists /\ searchRunnerDirs(fs).dirs # <<>>
  /\ \E d \in Nodes : work[d]

(***************************************************************************)
(* C10.  Under SpecFair and as long as the context is not cancelled, a     *)
(* natural exit of a worker process is followed by a new cmd.Start() of    *)
(* the same loop, for exit status 0 and non-zero alike.                    *)
(***************************************************************************)
C10_ExitLeadsToRestart ==
  \A i \in LoopIds :
    (~cancelled /\ pc[i] = "select" /\ done[i] \in {"ok", "err"})
      ~> (cancelled \/ NewAttempt(i))

\* A loop is starting again after a non-zero exit while another one is
\* starting again after exit status 0.
C10_Witness ==
  \E i, j \in Loops :
    /\ ~cancelled
    /\ pc[i] = "start" /\ last[i] = "error-completed"
    /\ pc[j] = "start" /\ last[j] = "completed"

(***************************************************************************)
(* C11.  The context only ever goes from not cancelled to cancelled, by    *)
(* the cancel() that follows the first signal, and stays cancelled.  The   *)
(* deferred cancel() at Run's return and any further signal leave the      *)
(* context, the loops, the processes and the signals sent to them as they  *)
(* are; a process is sent SIGINT at most once and SIGKILL at most once.    *)
(***************************************************************************)
C11_CancelOnceAndForAll ==
  /\ [][cancelled => cancelled']_vars
  /\ [][cancelled' # cancelled => mainPc = "waitsig" /\ mainPc' = "wgwait"]_vars
  /\ [][(cancelled /\ (mainPc' = "returned" \/ arrived' # arrived))
          => /\ cancelled' = cancelled
             /\ pc' = pc /\ alive' = alive /\ sigs' = sigs
             /\ timer' = timer /\ work' = work /\ wg' = wg]_vars
  /\ [][\A i \in LoopIds :
          sigs'[i] \in {<<>>, <<"int">>, <<"int", "kill">>}]_vars

\* Run has returned after the drain (deferred cancel() done) and a second
\* signal had arrived on the way; one process was interrupted just once.
C11_Witness ==
  /\ mainPc = "returned" /\ ret = "nil" /\ cancelled
  /\ arrived = 2
  /\ \E i \in Loops : pc[i] = "done" /\ sigs[i] = <<"int">>

(***************************************************************************)
(* C12.  While the supervisor runs, whether a loop can take its next step  *)
(* is decided by that loop's own position, its own done channel and timer  *)
(* and the context alone: a loop at its check, its cleanup or its launch   *)
(* can always step, a loop in the outer select steps as soon as its own    *)
(* process has exited or the context is cancelled, a loop in the grace     *)
(* wait as soon as its own process has exited or its own timer fired, a    *)
(* loop waiting after SIGKILL as soon as its own process has exited --     *)
(* whatever the sibling loops and their processes are doing.               *)
(***************************************************************************)
C12_LoopsNeverBlockOnSiblings ==
  \A i \in Loops :
    Running =>
      /\ pc[i] \in {"check", "clean", "start"} => ENABLED LoopStep(i)
      /\ pc[i] = "select" =>
           (ENABLED LoopStep(i) <=> (cancelled \/ done[i] # "empty"))
      /\ pc[i] = "grace" =>
           /\ ENABLED LoopStep(i) <=> (done[i] # "empty" \/ timer[i] = GracePeriod)
           /\ ENABLED Tick(i) <=> (done[i] = "empty" /\ timer[i] < GracePeriod)
      /\ pc[i] = "killwait" => (ENABLED LoopStep(i) <=> done[i] # "empty")

\* One loop is about to retry after a failed launch while its sibling still
\* waits for a process that ignores SIGINT.
C12_Witness ==
  \E i, j \in Loops :
    /\ i # j /\ Running
    /\ pc[i] = "start" /\ last[i] = "startfail"
    /\ pc[j] = "grace" /\ alive[j] = 1 /\ timer[j] > 0

(***************************************************************************)
(* Helpers of the locator's properties                                     *)
(***************************************************************************)
\* The order in which WalkDir reaches the directories of the fixed shape.
WalkOrder ==
  <<".", "a", "a/x", "b">>

\* The directories that hold run.sh and lie below no directory holding it.
TopmostMarked(t) ==
  {n \in t.marker : \A m \in t.marker : n \notin Descendants(m)}

IsTopmostMarked(n) ==
  n \in TopmostMarked(fs)

(***************************************************************************)
(* C13.  Whatever the tree, the slice returned by searchRunnerDirs (also   *)
(* the one returned beside an error) never holds a directory together      *)
(* with one of its strict descendants, also when the root itself holds     *)
(* run.sh.                                                                 *)
(***************************************************************************)
C13_NoNestedResults ==
  \A a, b \in 1 .. Len(runnerDirs) :
    /\ runnerDirs[b] \notin Descendants(runnerDirs[a])
    /\ (a # b => runnerDirs[a] # runnerDirs[b])

\* ./a, ./a/x and ./b all hold run.sh and the locator has returned ./a and
\* ./b only.
C13_Witness ==
  /\ mainPc = "returned"
  /\ fs.exists /\ fs.marker = {"a", "a/x", "b"}
  /\ runnerDirs = <<"a", "b">>

(***************************************************************************)
(* C14.  On a tree that can be read throughout, searchRunnerDirs returns   *)
(* no error and exactly, in walk order, the directories that hold run.sh   *)
(* and lie below no other directory holding it; with no such directory     *)
(* the result is empty and there is still no error.  The same result is    *)
(* returned whenever the walk ends without error.                          *)
(***************************************************************************)
C14_ExactlyTopmostMarked ==
  mainPc = "returned" =>
    /\ (fs.exists /\ fs.unreadable = {}) => ret = "nil"
    /\ ret = "nil" => runnerDirs = SelectSeq(WalkOrder, IsTopmostMarked)
    /\ (ret = "nil" /\ TopmostMarked(fs) = {}) => runnerDirs = <<>>

\* A readable tree with run.sh in ./a/x and ./b: both are returned.
C14_Witness ==
  /\ mainPc = "returned" /\ ret = "nil"
  /\ fs.unreadable = {} /\ fs.marker = {"a/x", "b"}
  /\ runnerDirs = <<"a/x", "b">>

(***************************************************************************)
(* C15.  A loop calls wg.Done() only when the last process it started has  *)
(* been waited for, its exit status received and the _work directory of    *)
(* that run removed; the WaitGroup counts exactly the loops that have not  *)
(* returned.  So when Run has returned after a drain ("All runners         *)
(* stopped") no process started by a loop is alive or unreaped and no      *)
(* loop is short of its cleanup.                                           *)
(***************************************************************************)
C15_NothingLeftAtReturn ==
  /\ wg = Cardinality({i \in Loops : pc[i] # "done"})
  /\ \A i \in Loops :
       pc[i] = "done" =>
         /\ alive[i] = 0 /\ done[i] = "empty"
         /\ last[i] # "none" => ~work[dirOf(i)]
  /\ (mainPc = "returned" /\ ret = "nil" /\ found # <<0>>) =>
       /\ Len(launched) = Len(runnerDirs)
       /\ \A i \in Loops : pc[i] = "done" /\ alive[i] = 0

\* Run has returned after a drain in which one process was killed after the
\* grace period and another one had exited on SIGINT.
C15_Witness ==
  /\ mainPc = "returned" /\ ret = "nil"
  /\ \E i, j \in Loops :
       /\ sigs[i] = <<"int", "kill">> /\ alive[i] = 0
       /\ sigs[j] = <<"int">> /\ exitedInGrace[j] /\ alive[j] = 0

(***************************************************************************)
(* C16.  A failed cmd.Start() is reported and sends the loop back to its   *)
(* check: the loop does not return, wg and the other loops are untouched.  *)
(* From there it returns if the context is cancelled and otherwise goes    *)
(* on to os.RemoveAll and a new cmd.Start(), so _work is absent at the     *)
(* retry; none of these steps can be held up.                              *)
(***************************************************************************)
C16_LaunchFailureRetries ==
  /\ [][\A i \in Loops :
          (pc[i] = "start" /\ pc'[i] # "start" /\ alive'[i] = alive[i])
            => /\ pc'[i] = "check" /\ last'[i] = "startfail"
               /\ wg' = wg /\ cancelled' = cancelled /\ work' = work
               /\ \A j \in LoopIds \ {i} :
                    pc'[j] = pc[j] /\ alive'[j] = alive[j] /\ sigs'[j] = sigs[j]]_vars
  /\ [][\A i \in Loops :
          (last[i] = "startfail" /\ pc[i] = "check" /\ pc'[i] # "check")
            => pc'[i] = (IF cancelled THEN "done" ELSE "clean")]_vars
  /\ [][\A i \in Loops :
          (last[i] = "startfail" /\ pc[i] = "clean" /\ pc'[i] # "clean")
            => pc'[i] = "start" /\ ~work'[dirOf(i)]]_vars
  /\ [][\A i \in Loops :
          (last[i] = "startfail" /\ Running)
            => /\ pc[i] \in {"check", "clean", "start", "done"}
               /\ pc[i] = "start" => ~work[dirOf(i)]
               /\ pc[i] # "done" => ENABLED LoopStep(i)]_vars

\* After a failed launch a loop has cleaned up and is about to call
\* cmd.Start() again.
C16_Witness ==
  \E i \in Loops :
    /\ Running /\ ~cancelled
    /\ pc[i] = "start" /\ last[i] = "startfail" /\ ~work[dirOf(i)]

(***************************************************************************)
(* C17.  A loop that has observed cancellation (it is in the ctx.Done()    *)
(* branch of the select, or it has returned) only moves forward through    *)
(* that branch to its return: it starts no process and no iteration.  A    *)
(* loop at its check with the context cancelled can only return.  A loop   *)
(* that has returned stays returned, and its return is counted exactly     *)
(* once in the WaitGroup.                                                  *)
(***************************************************************************)
ObservedRank(p) ==
  CASE p = "grace" -> 1 [] p = "killwait" -> 2 [] p = "done" -> 3 [] OTHER -> 0

C17_ObservationIsTerminal ==
  [][\A i \in Loops :
       /\ ObservedRank(pc[i]) > 0 =>
            /\ ObservedRank(pc'[i]) >= ObservedRank(pc[i])
            /\ alive'[i] <= alive[i]
            /\ lateStarts'[i] = lateStarts[i]
       /\ (pc[i] = "check" /\ cancelled) => pc'[i] \in {"check", "done"}
       /\ (pc'[i] = "done" /\ pc[i] # "done") => wg' = wg - 1
       /\ (pc[i] = "done" /\ mainPc' = mainPc) => wg' <= wg]_vars

\* One loop returned at its check after a completed run, while a sibling is
\* still in the grace period of its own stop.
C17_Witness ==
  \E i, j \in Loops :
    /\ pc[i] = "done" /\ last[i] \in {"completed", "error-completed"}
    /\ pc[j] = "grace"

C19_ForcedExitIsUnclean ==
  [][/\ (mainPc # "exited" /\ mainPc' = "exited") =>
          /\ cancelled /\ forcePc = "waiting"
          /\ work' = work /\ sigs' = sigs /\ alive' = alive
          /\ pc' = pc /\ done' = done /\ wg' = wg
     /\ mainPc = "exited" =>
          /\ mainPc' = "exited"
          /\ sigs' = sigs /\ alive' = alive /\ pc' = pc /\ wg' = wg
          /\ \A d \in DOMAIN work : work[d] => work'[d]]_vars

\* The supervisor has exited while one worker, interrupted but not killed,
\* and one worker that was never signalled are both alive with their _work.
C19_Witness ==
  /\ mainPc = "exited"
  /\ \E i, j \in Loops :
       /\ pc[i] = "grace" /\ alive[i] = 1 /\ sigs[i] = <<"int">> /\ work[dirOf(i)]
       /\ pc[j] = "select" /\ alive[j] = 1 /\ sigs[j] = <<>> /\ work[dirOf(j)]

(***************************************************************************)
(* The supervisor of main.go (func main and its runRunnerLoop), on the     *)
(* same variables.  The command is made with exec.CommandContext and run   *)
(* with cmd.Run(): there is no Setpgid, no done channel of the loop's own, *)
(* and no select on ctx.Done() while the process runs; os/exec itself      *)
(* calls cmd.Process.Kill() when the context is cancelled.  sigs[i] holds  *)
(* the signals the supervisor sends to the process of loop i.              *)
(***************************************************************************)

\* main.go lines 14-33: discovery in ".", panic on an error (the process
\* ends), "Found n runners", return when there is none, context.WithCancel
\* and signal.Notify.
MainSearch ==
  /\ mainPc = "search"
  /\ LET r == searchRunnerDirs(fs)
     IN  IF r.err
           THEN /\ mainPc' = "exited"
                /\ UNCHANGED <<ret, found, runnerDirs, registered>>
           ELSE /\ found' = <<Len(r.dirs)>>
                /\ runnerDirs' = r.dirs
                /\ IF Len(r.dirs) = 0
                     THEN /\ mainPc' = "returned"
                          /\ ret' = "nil"
                          /\ UNCHANGED registered
                     ELSE /\ mainPc' = "spawn"
                          /\ registered' = TRUE
                          /\ UNCHANGED ret
  /\ UNCHANGED <<fs, work, launched, cancelled, sigCh, arrived, forcePc, wg>>
  /\ UNCHANGED loopVars

\* main.go lines 36-42, one turn of the range loop: wg.Add(1) and go func.
MainSpawn ==
  /\ mainPc = "spawn"
  /\ Len(launched) < Len(runnerDirs)
  /\ LET i == Len(launched) + 1
     IN  /\ launched' = Append(launched, runnerDirs[i])
         /\ wg' = wg + 1
         /\ pc' = [pc EXCEPT ![i] = "check"]
  /\ UNCHANGED <<fs, work, mainPc, ret, found, runnerDirs, registered,
                 cancelled, sigCh, arrived, forcePc>>
  /\ UNCHANGED <<alive, done, sigs, timer, last, exitedInGrace, lateStarts>>

\* The range loop is over: main blocks in <-sigCh (main.go line 45).
MainSpawned ==
  /\ mainPc = "spawn"
  /\ Len(launched) = Len(runnerDirs)
  /\ mainPc' = "waitsig"
  /\ UNCHANGED <<fs, work, ret, found, runnerDirs, launched, registered,
                 cancelled, sigCh, arrived, forcePc, wg>>
  /\ UNCHANGED loopVars

\* main.go lines 45-47: the signal is received and cancel() is called.  No
\* goroutine reads sigCh afterwards.
MainFirstSignal ==
  /\ mainPc = "waitsig"
  /\ sigCh > 0
  /\ sigCh' = sigCh - 1
  /\ cancelled' = TRUE
  /\ mainPc' = "wgwait"
  /\ UNCHANGED <<fs, work, ret, found, runnerDirs, launched, registered,
                 arrived, forcePc, wg>>
  /\ UNCHANGED loopVars

\* main.go lines 49-51: wg.Wait() returns, "All runners stopped", main ends.
MainWaitDone ==
  /\ mainPc = "wgwait"
  /\ wg = 0
  /\ mainPc' = "returned"
  /\ ret' = "nil"
  /\ UNCHANGED <<fs, work, found, runnerDirs, launched, registered,
                 cancelled, sigCh, arrived, forcePc, wg>>
  /\ UNCHANGED loopVars

\* main.go lines 55-59: the check of ctx.Done() that opens an iteration.
MainLoopCheck(i) ==
  /\ Running
  /\ pc[i] = "check"
  /\ IF cancelled
       THEN /\ pc' = [pc EXCEPT ![i] = "done"]
            /\ wg' = wg - 1
       ELSE /\ pc' = [pc EXCEPT ![i] = "clean"]
            /\ UNCHANGED wg
  /\ UNCHANGED <<fs, work>>
  /\ UNCHANGED mainVars
  /\ UNCHANGED <<alive, done, sigs, timer, last, exitedInGrace, lateStarts>>

\* main.go lines 62-63: os.RemoveAll(dir/_work) before the run.
MainLoopClean(i) ==
  /\ Running
  /\ pc[i] = "clean"
  /\ work' = [work EXCEPT ![dirOf(i)] = FALSE]
  /\ pc' = [pc EXCEPT ![i] = "start"]
  /\ UNCHANGED <<fs, wg>>
  /\ UNCHANGED mainVars
  /\ UNCHANGED <<alive, done, sigs, timer, last, exitedInGrace, lateStarts>>

\* main.go lines 65-71: "Starting runner" and the first half of cmd.Run().
\* The process starts, unless the context is cancelled already (Start
\* returns ctx.Err()) or the start fails; Run then returns the error.
MainLoopRun(i) ==
  /\ Running
  /\ pc[i] = "start"
  /\ \/ /\ ~cancelled
        /\ alive' = [alive EXCEPT ![i] = @ + 1]
        /\ done' = [done EXCEPT ![i] = "empty"]
     \/ /\ done' = [done EXCEPT ![i] = "err"]
        /\ UNCHANGED alive
  /\ sigs' = [sigs EXCEPT ![i] = <<>>]
  /\ timer' = [timer EXCEPT ![i] = 0]
  /\ exitedInGrace' = [exitedInGrace EXCEPT ![i] = FALSE]
  /\ last' = [last EXCEPT ![i] = "starting"]
  /\ pc' = [pc EXCEPT ![i] = "run"]
  /\ UNCHANGED <<fs, work, wg>>
  /\ UNCHANGED mainVars
  /\ UNCHANGED lateStarts

\* exec.CommandContext (main.go line 65): when the context is cancelled
\* while the process runs, os/exec kills the process with SIGKILL at once.
\* The loop itself is blocked in cmd.Run() and sends nothing.
MainCtxKill(i) ==
  /\ Running
  /\ pc[i] = "run"
  /\ cancelled
  /\ alive[i] > 0
  /\ ~Killed(i)
  /\ sigs' = [sigs EXCEPT ![i] = Append(@, "kill")]
  /\ UNCHANGED <<fs, work, wg>>
  /\ UNCHANGED mainVars
  /\ UNCHANGED <<pc, alive, done, timer, last, exitedInGrace, lateStarts>>

\* main.go lines 71-83: cmd.Run() returns, _work is removed, the loop
\* returns if the context is cancelled and otherwise reports and restarts.
MainLoopRunDone(i) ==
  /\ Running
  /\ pc[i] = "run"
  /\ done[i] # "empty"
  /\ work' = [work EXCEPT ![dirOf(i)] = FALSE]
  /\ IF cancelled
       THEN /\ pc' = [pc EXCEPT ![i] = "done"]
            /\ wg' = wg - 1
            /\ last' = [last EXCEPT ![i] = "stopped"]
       ELSE /\ pc' = [pc EXCEPT ![i] = "check"]
            /\ last' = [last EXCEPT ![i] =
                          IF done[i] = "ok" THEN "completed" ELSE "error-completed"]
            /\ UNCHANGED wg
  /\ done' = [done EXCEPT ![i] = "empty"]
  /\ UNCHANGED fs
  /\ UNCHANGED mainVars
  /\ UNCHANGED <<alive, sigs, timer, exitedInGrace, lateStarts>>

MainLoopStep(i) ==
  \/ MainLoopCheck(i)
  \/ MainLoopClean(i)
  \/ MainLoopRun(i)
  \/ MainLoopRunDone(i)

NextMain ==
  \/ MainSearch
  \/ MainSpawn
  \/ MainSpawned
  \/ MainFirstSignal
  \/ MainWaitDone
  \/ Interrupt
  \/ \E i \in LoopIds : MainLoopStep(i)
  \/ \E i \in LoopIds : MainCtxKill(i)
  \/ \E i \in LoopIds : ProcMkWork(i)
  \/ \E i \in LoopIds : ProcExit(i)
  \/ \E i \in LoopIds : ProcKilled(i)

SpecMain == Init /\ [][NextMain]_vars

(***************************************************************************)
(* C20.  As claimed for the loop of main.go: a process that is running     *)
(* when the context is cancelled is sent SIGINT first, and SIGKILL only    *)
(* after SIGINT and once GracePeriod units have passed.                    *)
(***************************************************************************)
C20_MainInterruptThenKill ==
  \A i \in Loops :
    /\ (cancelled /\ pc[i] = "run" /\ Len(sigs[i]) > 0) => sigs[i][1] = "int"
    /\ Killed(i) => sigs[i] = <<"int", "kill">> /\ timer[i] = GracePeriod

(***************************************************************************)
(* C21.  os.Exit(1) is called only by the goroutine that Run starts after  *)
(* it has received the first signal and called cancel(): whenever the      *)
(* supervisor has force-exited, the context is cancelled, that goroutine   *)
(* had been started and at least two signals have arrived.  With a single  *)
(* signal the supervisor never force-exits.                                *)
(***************************************************************************)
C21_ForcedExitOnlyAfterCancel ==
  /\ mainPc = "exited" => cancelled /\ forcePc = "waiting" /\ arrived >= 2
  /\ forcePc = "waiting" => cancelled /\ arrived >= 1
  /\ arrived <= 1 => mainPc # "exited"

\* The supervisor has force-exited on the second of two signals, after the
\* loops were launched.
C21_Witness ==
  /\ mainPc = "exited" /\ arrived = 2 /\ sigCh = 0 /\ cancelled
  /\ Len(launched) > 0

(***************************************************************************)
(* C22.  As claimed: every SIGINT and every SIGKILL a loop sends goes to   *)
(* a process that is still alive, i.e. whose cmd.Wait() has not returned   *)
(* yet in the waiter goroutine.                                            *)
(***************************************************************************)
C22_NoSignalToReapedProcess ==
  [][\A i \in Loops :
       Len(sigs'[i]) > Len(sigs[i]) => alive[i] > 0]_vars

(***************************************************************************)
(* C23.  A loop returns only when the context is cancelled: if some loop   *)
(* has returned, cancel() has been called.  Hence, once discovery has      *)
(* found at least one directory, as long as no signal has arrived the      *)
(* context is not cancelled, no loop has returned and Run has neither      *)
(* returned nor exited, whatever has become of the processes.              *)
(***************************************************************************)
C23_NoReturnWithoutCancel ==
  /\ (\E i \in Loops : pc[i] = "done") => cancelled /\ arrived >= 1
  /\ (found # <<>> /\ found[1] >= 1 /\ arrived = 0) =>
        /\ ~cancelled
        /\ mainPc \in {"spawn", "waitsig"}
        /\ \A i \in Loops : pc[i] # "done"
  /\ (mainPc = "returned" /\ found # <<>> /\ found[1] >= 1) =>
        cancelled /\ arrived >= 1

\* After the cancel the first loop has returned, having seen an error exit
\* before; its sibling, whose last launch failed, has not returned yet.
C23_Witness ==
  /\ cancelled /\ mainPc = "wgwait"
  /\ \E i, j \in Loops :
       /\ pc[i] = "done" /\ last[i] = "error-completed"
       /\ pc[j] # "done" /\ last[j] = "startfail"
       /\ \A k \in Loops \ {i} : pc[k] # "done"
====
